---- MODULE Spec2Model ----
(***************************************************************************)
(* Model of the SSFR client (src/src/ssfr-client.ts) and of the tool       *)
(* handler that calls it (src/src/index.ts).                               *)
(*                                                                         *)
(* Numbers.  A JavaScript number is modelled exactly as a decimal          *)
(* [t |-> "num", m |-> mantissa, e |-> digits after the point], that is    *)
(* m * 10^(-e), kept normalised (no trailing zero in the fraction), or as  *)
(* [t |-> "nan"].  Coordinates are integers in units of 1/10000 degree     *)
(* (3.0 is 30000, 2.999 is 29990, 38.7617 is 387617).                      *)
(* Strings that are parsed are sequences of one-character strings.         *)
(***************************************************************************)
EXTENDS Integers, Sequences, FiniteSets, TLC

\* ------------------------------------------------------------------------
\* Bounds of the model
\* ------------------------------------------------------------------------

\* Longest generated string handed to parseFloat
MaxStrLen == 3
\* Half-width, in 1/10000 degree, of the grid explored around each bound
GridSpan == 2

\* ------------------------------------------------------------------------
\* JavaScript values
\* ------------------------------------------------------------------------

\* Every value is a record of the same shape; t tells which fields count.
Undefined == [t |-> "undefined", m |-> 0, e |-> 0, s |-> <<>>]
Null == [t |-> "null", m |-> 0, e |-> 0, s |-> <<>>]
NaN == [t |-> "nan", m |-> 0, e |-> 0, s |-> <<>>]

RECURSIVE Pow10(_)
Pow10(n) == IF n = 0 THEN 1 ELSE 10 * Pow10(n - 1)

RECURSIVE Norm(_, _)
Norm(m, e) ==
    IF e > 0 /\ m % 10 = 0 THEN Norm(m \div 10, e - 1)
    ELSE [t |-> "num", m |-> m, e |-> e, s |-> <<>>]

\* The number m * 10^(-e)
Num(m, e) == Norm(m, e)
Str(s) == [t |-> "str", m |-> 0, e |-> 0, s |-> s]

DigitChars == <<"0", "1", "2", "3", "4", "5", "6", "7", "8", "9">>
IsDigit(c) == \E d \in 1..10 : DigitChars[d] = c
DigitVal(c) == (CHOOSE d \in 1..10 : DigitChars[d] = c) - 1
WhiteSpace == {" "}

Abs(n) == IF n < 0 THEN -n ELSE n

RECURSIVE NatToDigits(_)
NatToDigits(n) ==
    IF n < 10 THEN <<DigitChars[n + 1]>>
    ELSE NatToDigits(n \div 10) \o <<DigitChars[(n % 10) + 1]>>

RECURSIVE PadDigits(_, _)
PadDigits(n, w) ==
    IF w = 0 THEN <<>>
    ELSE PadDigits(n \div 10, w - 1) \o <<DigitChars[(n % 10) + 1]>>

\* Number.prototype.toString for a decimal in the plain (non-exponent) range
NumToString(v) ==
    LET a == Abs(v.m)
        p == Pow10(v.e)
    IN  (IF v.m < 0 THEN <<"-">> ELSE <<>>)
        \o NatToDigits(a \div p)
        \o (IF v.e > 0 THEN <<".">> \o PadDigits(a % p, v.e) ELSE <<>>)

\* value.toString() for the values JSON can carry in the `value` field
valueToString(v) ==
    IF v.t = "num" THEN NumToString(v) ELSE v.s

RECURSIVE SkipWs(_, _)
SkipWs(s, i) ==
    IF i <= Len(s) /\ s[i] \in WhiteSpace THEN SkipWs(s, i + 1) ELSE i

RECURSIVE DigitsEnd(_, _)
DigitsEnd(s, i) ==
    IF i <= Len(s) /\ IsDigit(s[i]) THEN DigitsEnd(s, i + 1) ELSE i

\* Value of the digits s[i], ..., s[j-1], appended to acc
RECURSIVE DigitsValue(_, _, _, _)
DigitsValue(s, i, j, acc) ==
    IF i >= j THEN acc
    ELSE DigitsValue(s, i + 1, j, 10 * acc + DigitVal(s[i]))

\* parseFloat accepting only a string that is a decimal literal from end to
\* end (as Number(s) does for such strings)
parseFloat_WholeString(s) ==
    LET i0 == SkipWs(s, 1)
        hasSign == i0 <= Len(s) /\ s[i0] \in {"+", "-"}
        neg == hasSign /\ s[i0] = "-"
        p == IF hasSign THEN i0 + 1 ELSE i0
        q == DigitsEnd(s, p)
        hasDot == q <= Len(s) /\ s[q] = "."
        r == IF hasDot THEN DigitsEnd(s, q + 1) ELSE q
        nInt == q - p
        nFrac == IF hasDot THEN r - (q + 1) ELSE 0
        mant == DigitsValue(s, q + 1, r, DigitsValue(s, p, q, 0))
    IN  IF nInt + nFrac = 0 \/ r <= Len(s) THEN NaN
        ELSE Num(IF neg THEN -mant ELSE mant, nFrac)

\* parseFloat: leading white space is skipped, then the longest prefix that
\* is a decimal literal (sign, digits, point, digits) is converted; whatever
\* follows it is ignored; NaN when there is no such prefix.
parseFloat(s) ==
    LET i0 == SkipWs(s, 1)
        hasSign == i0 <= Len(s) /\ s[i0] \in {"+", "-"}
        neg == hasSign /\ s[i0] = "-"
        p == IF hasSign THEN i0 + 1 ELSE i0
        q == DigitsEnd(s, p)
        hasDot == q <= Len(s) /\ s[q] = "."
        r == IF hasDot THEN DigitsEnd(s, q + 1) ELSE q
        nInt == q - p
        nFrac == IF hasDot THEN r - (q + 1) ELSE 0
        mant == DigitsValue(s, q + 1, r, DigitsValue(s, p, q, 0))
    IN  IF nInt + nFrac = 0 THEN NaN
        ELSE Num(IF neg THEN -mant ELSE mant, nFrac)

\* if (value) ... : JavaScript truthiness of a JSON scalar
Truthy(v) ==
    CASE v.t = "undefined" -> FALSE
      [] v.t = "null" -> FALSE
      [] v.t = "nan" -> FALSE
      [] v.t = "num" -> v.m # 0
      [] v.t = "str" -> Len(v.s) > 0

\* ------------------------------------------------------------------------
\* Region validation
\* ------------------------------------------------------------------------

ETHIOPIA_BOUNDS ==
    [minLat |-> 30000, maxLat |-> 150000, minLon |-> 320000, maxLon |-> 480000]

\* isInEthiopia with the upper bounds compared strictly
isInEthiopia_Exclusive(lat, lon) ==
    /\ lat >= ETHIOPIA_BOUNDS.minLat
    /\ lat < ETHIOPIA_BOUNDS.maxLat
    /\ lon >= ETHIOPIA_BOUNDS.minLon
    /\ lon < ETHIOPIA_BOUNDS.maxLon

isInEthiopia(lat, lon) ==
    /\ lat >= ETHIOPIA_BOUNDS.minLat
    /\ lat <= ETHIOPIA_BOUNDS.maxLat
    /\ lon >= ETHIOPIA_BOUNDS.minLon
    /\ lon <= ETHIOPIA_BOUNDS.maxLon

\* ------------------------------------------------------------------------
\* Layers and upstream responses
\* ------------------------------------------------------------------------

Crops == {"wheat", "maize"}

SSFR_LAYERS ==
    [wheat |->
        [compost |-> "et_wheat_compost_probabilistic_dominant",
         nps |-> "et_wheat_nps_probabilistic_dominant",
         urea |-> "et_wheat_urea_probabilistic_dominant",
         vcompost |-> "et_wheat_vcompost_probabilistic_dominant",
         yield |-> "et_wheat_yieldtypes_optimal_dominant"],
     maize |->
        [compost |-> "et_maize_compost_probabilistic_dominant",
         nps |-> "et_maize_nps_probabilistic_dominant",
         urea |-> "et_maize_urea_probabilistic_dominant",
         vcompost |-> "et_maize_vcompost_probabilistic_dominant",
         yield |-> "et_maize_yieldtypes_optimal_dominant"]]

LAYER_DATES == [default |-> "2024-07"]

\* The order of the layerPromises array: position i fetches LayerOrder[i]
LayerOrder == <<"compost", "nps", "urea", "vcompost", "yield">>
Slots == 1..Len(LayerOrder)

\* An object that is either an SSFRResponse or the { error, layer } object of
\* the catch handlers.  keys is the set of own properties the object has.
Response(keys, error, layer, coordinates) ==
    [keys |-> keys, error |-> error, layer |-> layer, coordinates |-> coordinates]

\* { coordinates: [ { value: v } ] }
ValuePayload(v) == Response({"coordinates"}, "", "", <<[value |-> v]>>)

\* The faults getLayerData can throw: the four it raises itself, and the
\* error of the transport (a refused connection, a broken stream), rethrown
Faults ==
    {"InvalidArgument", "Timeout", "UpstreamError", "MalformedResponse", "NetworkError"}
NoData == Response({}, "", "", <<>>)

\* How one getLayerData call ends: it throws `fault`, or returns `data`
Threw(f) == [fault |-> f, data |-> NoData]
Returned(d) == [fault |-> "", data |-> d]

\* ------------------------------------------------------------------------
\* getLayerData: argument validation
\* ------------------------------------------------------------------------

\* validateArgs without the range check of the longitude
validateArgs_NoLongitudeRange(layer, lat, lon, date) ==
    IF layer = "" THEN "Invalid layer name"
    ELSE IF lat < -900000 \/ lat > 900000 THEN "Invalid latitude"
    ELSE IF date = "" THEN "Invalid date format"
    ELSE "ok"

validateArgs(layer, lat, lon, date) ==
    IF layer = "" THEN "Invalid layer name"
    ELSE IF lat < -900000 \/ lat > 900000 THEN "Invalid latitude"
    ELSE IF lon < -1800000 \/ lon > 1800000 THEN "Invalid longitude"
    ELSE IF date = "" THEN "Invalid date format"
    ELSE "ok"

\* ------------------------------------------------------------------------
\* getFertilizerRecommendation: the code after `await Promise.all`
\* ------------------------------------------------------------------------

parseNumericValue(value) ==
    IF value.t \in {"null", "undefined"} THEN Undefined
    ELSE LET parsed == parseFloat(valueToString(value))
         IN  IF parsed.t = "nan" THEN Undefined ELSE parsed

isError(result) == "error" \in result.keys

\* result.coordinates && result.coordinates[0]?.value
firstValue(result) ==
    IF "coordinates" \notin result.keys THEN Undefined
    ELSE IF Len(result.coordinates) = 0 THEN Undefined
    ELSE result.coordinates[1].value

\* One of the five extraction blocks: the number to store, or Undefined
extractValue(result) ==
    IF ~isError(result) /\ Truthy(firstValue(result))
    THEN parseNumericValue(firstValue(result))
    ELSE Undefined

\* ureaData reading the result of the nps fetch
ureaData_FromNps(results) == results[2]

\* const compostData = results[0]; ... const yieldData = results[4];
compostData(results) == results[1]
npsData(results) == results[2]
ureaData(results) == results[3]
vcompostData(results) == results[4]
yieldData(results) == results[5]

\* The recommendation object once the five extraction blocks have run
buildRecommendation(crop, lat, lon, results) ==
    [crop |-> crop,
     location |-> [latitude |-> lat, longitude |-> lon],
     organic |-> [compost |-> extractValue(compostData(results)),
                  vermicompost |-> extractValue(vcompostData(results))],
     inorganic |-> [urea |-> extractValue(ureaData(results)),
                    nps |-> extractValue(npsData(results))],
     expectedYield |-> extractValue(yieldData(results)),
     dataSource |-> "Next-gen Agro Advisory Service"]

hasAnyData(rec) ==
    LET hasOrganicData ==
            rec.organic.compost # Undefined \/ rec.organic.vermicompost # Undefined
        hasInorganicData ==
            rec.inorganic.urea # Undefined \/ rec.inorganic.nps # Undefined
    IN  hasOrganicData \/ hasInorganicData \/ rec.expectedYield # Undefined

NoRecommendation ==
    [crop |-> "", location |-> [latitude |-> 0, longitude |-> 0],
     organic |-> [compost |-> Undefined, vermicompost |-> Undefined],
     inorganic |-> [urea |-> Undefined, nps |-> Undefined],
     expectedYield |-> Undefined, dataSource |-> ""]

\* ------------------------------------------------------------------------
\* State
\* ------------------------------------------------------------------------

\* Two invocations of getFertilizerRecommendation can be in progress on the
\* one shared client; an invocation that is not made stays "unused".
CallIds == {1, 2}

VARIABLES
    pc,              \* per call: "unused", "ready", "awaiting", "returned", "threw"
    args,            \* per call: [crop, lat, lon]
    layerPromises,   \* per call: the five promises of the layerPromises array
    fetchLog,        \* per call: the requests its getLayerData calls sent
    layerOutcome,    \* per call: how each getLayerData call ended (NotEnded before)
    recommendation,  \* per call: the value returned (NoRecommendation if none)
    thrown,          \* per call: the error thrown out of the call ("" if none)
    upstream,        \* the ways the remote service may end a request
    probe,           \* a coordinate handed to isInEthiopia on its own
    inRegion,        \* the answer to probe: "?", "true" or "false"
    now,             \* the time, in the units of the 30-unit timeout
    gl,              \* one getLayerData call followed step by step
    tool             \* per call: the tool invocation that makes it

vars ==
    <<pc, args, layerPromises, fetchLog, layerOutcome, recommendation, thrown,
      upstream, probe, inRegion, now, gl, tool>>

callVars ==
    <<pc, args, layerPromises, fetchLog, layerOutcome, recommendation, thrown, upstream>>

probeVars == <<probe, inRegion>>
fetchVars == <<now, gl>>
\* What the steps of getFertilizerRecommendation leave alone
nonCallVars == <<probeVars, fetchVars, tool>>

NotEnded == [fault |-> "pending", data |-> NoData]

Pending == [st |-> "pending", v |-> NoData, err |-> ""]
NotIssued == [st |-> "none", v |-> NoData, err |-> ""]
Fulfilled(v) == [st |-> "fulfilled", v |-> v, err |-> ""]
Rejected(err) == [st |-> "rejected", v |-> NoData, err |-> err]

\* catchLayer without the catch handler: a fault rejects the promise
catchLayer_Rethrow(name, outcome) ==
    IF outcome.fault # "" THEN Rejected(outcome.fault) ELSE Fulfilled(outcome.data)

\* getLayerData(...).catch(err => ({ error: err.message, layer: '<name>' })):
\* the promise stored in layerPromises once getLayerData has ended as `outcome`
catchLayer(name, outcome) ==
    IF outcome.fault # ""
    THEN Fulfilled(Response({"error", "layer"}, outcome.fault, name, <<>>))
    ELSE Fulfilled(outcome.data)

\* promiseAll settling with the first promise that settles (Promise.race)
promiseAll_Race(promises) ==
    IF \E i \in Slots : promises[i].st = "rejected" THEN "rejected"
    ELSE IF \E i \in Slots : promises[i].st = "fulfilled" THEN "fulfilled"
    ELSE "pending"

\* await Promise.all(promises): "rejected" as soon as one promise is rejected,
\* "fulfilled" once every promise is fulfilled, "pending" otherwise
promiseAll(promises) ==
    IF \E i \in Slots : promises[i].st = "rejected" THEN "rejected"
    ELSE IF \A i \in Slots : promises[i].st = "fulfilled" THEN "fulfilled"
    ELSE "pending"

\* The request one getLayerData call sends
Request(layer, lat, lon, date) ==
    [layer |-> layer, lat |-> lat, lon |-> lon, date |-> date]

\* getLayerData up to its first await: the arguments are validated, and only
\* then is the request sent; invalid arguments throw before any request.
issueFetch(name, layer, lat, lon, date) ==
    IF validateArgs(layer, lat, lon, date) = "ok"
    THEN [promise |-> Pending, sent |-> <<Request(layer, lat, lon, date)>>,
          ended |-> NotEnded]
    ELSE [promise |-> catchLayer(name, Threw("InvalidArgument")), sent |-> <<>>,
          ended |-> Threw("InvalidArgument")]

RECURSIVE Flatten(_)
Flatten(ss) == IF ss = <<>> THEN <<>> ELSE Head(ss) \o Flatten(Tail(ss))

\* ------------------------------------------------------------------------
\* getFertilizerRecommendation
\* ------------------------------------------------------------------------

\* Start with the region check made after the fan-out instead of before it
Start_FetchBeforeCheck(k) ==
    /\ pc[k] = "ready"
    /\ LET a == args[k]
           layers == SSFR_LAYERS[a.crop]
           issued == [i \in Slots |->
                        issueFetch(LayerOrder[i], layers[LayerOrder[i]],
                                   a.lat, a.lon, LAYER_DATES.default)]
       IN  /\ layerPromises' =
                  [layerPromises EXCEPT ![k] = [i \in Slots |-> issued[i].promise]]
           /\ fetchLog' =
                  [fetchLog EXCEPT ![k] = Flatten([i \in Slots |-> issued[i].sent])]
           /\ layerOutcome' =
                  [layerOutcome EXCEPT ![k] = [i \in Slots |-> issued[i].ended]]
           /\ IF ~isInEthiopia(a.lat, a.lon)
              THEN /\ pc' = [pc EXCEPT ![k] = "threw"]
                   /\ thrown' = [thrown EXCEPT ![k] = "UnsupportedRegion"]
              ELSE /\ pc' = [pc EXCEPT ![k] = "awaiting"]
                   /\ UNCHANGED thrown
    /\ UNCHANGED <<args, recommendation, upstream, nonCallVars>>

\* Start serving a call from the promises of an earlier call with the same
\* arguments (a cache on the shared client) instead of fetching again
Start_SharedCache(k) ==
    /\ pc[k] = "ready"
    /\ LET a == args[k]
           layers == SSFR_LAYERS[a.crop]
           issued == [i \in Slots |->
                        issueFetch(LayerOrder[i], layers[LayerOrder[i]],
                                   a.lat, a.lon, LAYER_DATES.default)]
           earlier == {j \in CallIds \ {k} : args[j] = a /\ pc[j] \in {"awaiting", "returned"}}
       IN  IF ~isInEthiopia(a.lat, a.lon)
           THEN /\ pc' = [pc EXCEPT ![k] = "threw"]
                /\ thrown' = [thrown EXCEPT ![k] = "UnsupportedRegion"]
                /\ UNCHANGED <<layerPromises, fetchLog, layerOutcome>>
           ELSE IF earlier # {}
           THEN LET j == CHOOSE j \in earlier : TRUE
                IN  /\ pc' = [pc EXCEPT ![k] = "awaiting"]
                    /\ layerPromises' = [layerPromises EXCEPT ![k] = layerPromises[j]]
                    /\ layerOutcome' = [layerOutcome EXCEPT ![k] = layerOutcome[j]]
                    /\ UNCHANGED <<fetchLog, thrown>>
           ELSE /\ pc' = [pc EXCEPT ![k] = "awaiting"]
                /\ layerPromises' =
                       [layerPromises EXCEPT ![k] = [i \in Slots |-> issued[i].promise]]
                /\ fetchLog' =
                       [fetchLog EXCEPT ![k] = Flatten([i \in Slots |-> issued[i].sent])]
                /\ layerOutcome' =
                       [layerOutcome EXCEPT ![k] = [i \in Slots |-> issued[i].ended]]
                /\ UNCHANGED thrown
    /\ UNCHANGED <<args, recommendation, upstream, nonCallVars>>

\* The call runs to `await Promise.all(layerPromises)`: the region check,
\* then the five getLayerData calls, each run to its own first await.
Start(k) ==
    /\ pc[k] = "ready"
    /\ LET a == args[k]
           layers == SSFR_LAYERS[a.crop]
           issued == [i \in Slots |->
                        issueFetch(LayerOrder[i], layers[LayerOrder[i]],
                                   a.lat, a.lon, LAYER_DATES.default)]
       IN  IF ~isInEthiopia(a.lat, a.lon)
           THEN /\ pc' = [pc EXCEPT ![k] = "threw"]
                /\ thrown' = [thrown EXCEPT ![k] = "UnsupportedRegion"]
                /\ UNCHANGED <<layerPromises, fetchLog, layerOutcome>>
           ELSE /\ pc' = [pc EXCEPT ![k] = "awaiting"]
                /\ layerPromises' =
                       [layerPromises EXCEPT ![k] = [i \in Slots |-> issued[i].promise]]
                /\ fetchLog' =
                       [fetchLog EXCEPT ![k] = Flatten([i \in Slots |-> issued[i].sent])]
                /\ layerOutcome' =
                       [layerOutcome EXCEPT ![k] = [i \in Slots |-> issued[i].ended]]
                /\ UNCHANGED thrown
    /\ UNCHANGED <<args, recommendation, upstream, nonCallVars>>

\* Settle sending the request a second time when it failed the first time
Settle_RetryOnce(k, i) ==
    /\ pc[k] = "awaiting"
    /\ layerPromises[k][i].st = "pending"
    /\ \E outcome \in upstream :
         IF outcome.fault # "" /\ Len(fetchLog[k]) <= 5
         THEN /\ fetchLog' = [fetchLog EXCEPT ![k] = Append(@, @[i])]
              /\ UNCHANGED <<layerOutcome, layerPromises>>
         ELSE /\ layerOutcome' = [layerOutcome EXCEPT ![k][i] = outcome]
              /\ layerPromises' =
                     [layerPromises EXCEPT ![k][i] = catchLayer(LayerOrder[i], outcome)]
              /\ UNCHANGED fetchLog
    /\ UNCHANGED <<pc, args, recommendation, thrown, upstream, nonCallVars>>

\* One pending getLayerData call ends, in one of the ways the remote service
\* allows, and its catch handler settles the promise.
Settle(k, i) ==
    /\ pc[k] = "awaiting"
    /\ layerPromises[k][i].st = "pending"
    /\ \E outcome \in upstream :
         /\ layerOutcome' = [layerOutcome EXCEPT ![k][i] = outcome]
         /\ layerPromises' =
                [layerPromises EXCEPT ![k][i] = catchLayer(LayerOrder[i], outcome)]
    /\ UNCHANGED <<pc, args, fetchLog, recommendation, thrown, upstream, nonCallVars>>

\* Promise.all settles and the rest of the function runs: extraction, the
\* hasAnyData check, and the return or the throw.
Join(k) ==
    /\ pc[k] = "awaiting"
    /\ promiseAll(layerPromises[k]) # "pending"
    /\ IF promiseAll(layerPromises[k]) = "rejected"
       THEN /\ pc' = [pc EXCEPT ![k] = "threw"]
            /\ thrown' = [thrown EXCEPT ![k] =
                   (CHOOSE i \in Slots : layerPromises[k][i].st = "rejected").err]
            /\ UNCHANGED recommendation
       ELSE LET results == [i \in Slots |-> layerPromises[k][i].v]
                rec == buildRecommendation(args[k].crop, args[k].lat, args[k].lon, results)
            IN  IF hasAnyData(rec)
                THEN /\ pc' = [pc EXCEPT ![k] = "returned"]
                     /\ recommendation' = [recommendation EXCEPT ![k] = rec]
                     /\ UNCHANGED thrown
                ELSE /\ pc' = [pc EXCEPT ![k] = "threw"]
                     /\ thrown' = [thrown EXCEPT ![k] = "InsufficientData"]
                     /\ UNCHANGED recommendation
    /\ UNCHANGED <<args, layerPromises, fetchLog, layerOutcome, upstream, nonCallVars>>

\* ------------------------------------------------------------------------
\* getLayerData, step by step and in time
\* ------------------------------------------------------------------------

\* setTimeout(() => controller.abort(), 30000): the ceiling, in time units
TIMEOUT == 30

\* The frame of one getLayerData call.  stage: "called" (not yet run), "fetch"
\* (awaiting fetch(), that is the status line and headers), "text" (awaiting
\* response.text()), "json" (awaiting response.json()), "done".
\* timer: "none", "armed", "cleared" or "fired"; requests: requests sent.
Frame(stage, a, timer, deadline, requests, outcome) ==
    [stage |-> stage, args |-> a, timer |-> timer, deadline |-> deadline,
     requests |-> requests, outcome |-> outcome]

NoFetchArgs == [layer |-> "", lat |-> 0, lon |-> 0, date |-> ""]

NoFetch ==
    /\ now = 0
    /\ gl = Frame("idle", NoFetchArgs, "none", 0, 0, NotEnded)

\* The function runs to `await fetch(...)`: validation, then the timer is
\* armed and the request sent; invalid arguments throw before both.
GetLayerData ==
    /\ gl.stage = "called"
    /\ LET a == gl.args
       IN  gl' = IF validateArgs(a.layer, a.lat, a.lon, a.date) = "ok"
                 THEN Frame("fetch", a, "armed", now + TIMEOUT, 1, NotEnded)
                 ELSE Frame("done", a, "none", 0, 0, Threw("InvalidArgument"))
    /\ UNCHANGED <<now, callVars, probeVars, tool>>

\* fetch() resolves: the status line and headers are in.  clearTimeout runs
\* at once; a non-ok status goes on to read the text, an ok one the JSON.
ResponseHeaders(ok) ==
    /\ gl.stage = "fetch"
    /\ gl' = [gl EXCEPT !.timer = "cleared",
                        !.stage = IF ok THEN "json" ELSE "text"]
    /\ UNCHANGED <<now, callVars, probeVars, tool>>

\* fetch() rejects with an error of the transport: the catch block clears the
\* timer and rethrows it.
FetchRejects ==
    /\ gl.stage = "fetch"
    /\ gl' = [gl EXCEPT !.timer = "cleared", !.stage = "done",
                        !.outcome = Threw("NetworkError")]
    /\ UNCHANGED <<now, callVars, probeVars, tool>>

\* The timer expires: controller.abort() makes the pending fetch() reject with
\* an AbortError, which the catch block turns into the timeout error.
TimerFires ==
    /\ gl.timer = "armed"
    /\ now >= gl.deadline
    /\ gl' = [gl EXCEPT !.timer = "fired", !.stage = "done",
                        !.outcome = Threw("Timeout")]
    /\ UNCHANGED <<now, callVars, probeVars, tool>>

\* response.text() resolves: the API error is thrown, and rethrown by the
\* catch block.
TextArrives ==
    /\ gl.stage = "text"
    /\ gl' = [gl EXCEPT !.stage = "done", !.outcome = Threw("UpstreamError")]
    /\ UNCHANGED <<now, callVars, probeVars, tool>>

\* Bodies response.json() can be given
Unparseable == [parse |-> "fail", data |-> NoData]
NotAnObject == [parse |-> "scalar", data |-> NoData]
ObjectBody(d) == [parse |-> "object", data |-> d]

\* response.json() settles on `body`: a parse error and a parsed value that
\* is not an object are thrown; an object is returned.
JsonArrives(body) ==
    /\ gl.stage = "json"
    /\ gl' = [gl EXCEPT !.stage = "done",
                        !.outcome = IF body.parse = "object" THEN Returned(body.data)
                                    ELSE Threw("MalformedResponse")]
    /\ UNCHANGED <<now, callVars, probeVars, tool>>

\* The body stream breaks while the text of an error response is read: the
\* error of response.text() is rethrown by the catch block.
TextFails ==
    /\ gl.stage = "text"
    /\ gl' = [gl EXCEPT !.stage = "done", !.outcome = Threw("NetworkError")]
    /\ UNCHANGED <<now, callVars, probeVars, tool>>

\* ------------------------------------------------------------------------
\* The get_fertilizer_recommendation tool (index.ts)
\* ------------------------------------------------------------------------

\* headerLat ? parseFloat(headerLat) : undefined, for a header that is absent
\* (Undefined) or present with the text header.s
defaultCoordinate(header) ==
    IF Truthy(header) THEN parseFloat(header.s) ELSE Undefined

\* argument || fallback
resolve_Or(argument, fallback) ==
    IF Truthy(argument) THEN argument ELSE fallback

\* argument ?? fallback
resolve(argument, fallback) ==
    IF argument.t \in {"undefined", "null"} THEN fallback ELSE argument

\* A number of degrees with at most four decimals, in units of 1/10000 degree
Units(v) == v.m * Pow10(4 - v.e)

\* ssfrClient.isInEthiopia(lat, lon) on values: a comparison with NaN is false
isInEthiopiaValue(lat, lon) ==
    /\ lat.t = "num"
    /\ lon.t = "num"
    /\ isInEthiopia(Units(lat), Units(lon))

\* What JSON.stringify writes for a number: null for NaN
jsonNumber(v) == IF v.t = "nan" THEN Null ELSE v

NoLocation == [latitude |-> Undefined, longitude |-> Undefined]
NoBounds == [minLat |-> 0, maxLat |-> 0, minLon |-> 0, maxLon |-> 0]
NoResponse ==
    [crop |-> "", location |-> [latitude |-> 0, longitude |-> 0],
     fertilizers |-> [organic |-> [compost |-> Undefined, vermicompost |-> Undefined],
                      inorganic |-> [urea |-> Undefined, nps |-> Undefined]],
     expected_yield |-> Undefined, data_source |-> "",
     units |-> [organic |-> "", inorganic |-> "", yield |-> ""]]

\* The value a tool invocation returns: the isError flag (FALSE when the
\* property is not set) and the text of its one content item, which is plain
\* text (message, then detail) or the JSON text of an object
ToolResult(flag, form, error, message, detail, location, bounds, response) ==
    [isError |-> flag, form |-> form, error |-> error, message |-> message,
     detail |-> detail, location |-> location, ethiopia_bounds |-> bounds,
     response |-> response]

NoResult == ToolResult(FALSE, "none", "", "", "", NoLocation, NoBounds, NoResponse)

needLocation ==
    ToolResult(TRUE, "text", "",
               "I need to know your farm location to provide fertilizer recommendations. Please provide your latitude and longitude coordinates.",
               "", NoLocation, NoBounds, NoResponse)

locationNotSupported(lat, lon) ==
    ToolResult(TRUE, "json", "Location not supported",
               "Site-Specific Fertilizer Recommendations are only available for locations in Ethiopia. Your coordinates are outside the supported region.",
               "", [latitude |-> jsonNumber(lat), longitude |-> jsonNumber(lon)],
               ETHIOPIA_BOUNDS, NoResponse)

\* The response object built from the recommendation, as JSON text
formatResponse(rec) ==
    ToolResult(FALSE, "json", "", "", "", NoLocation, NoBounds,
               [crop |-> rec.crop, location |-> rec.location,
                fertilizers |-> [organic |-> rec.organic, inorganic |-> rec.inorganic],
                expected_yield |-> rec.expectedYield, data_source |-> rec.dataSource,
                units |-> [organic |-> "tons/ha", inorganic |-> "kg/ha",
                           yield |-> "kg/ha"]])

\* error.message of what getFertilizerRecommendation throws
errorMessage(error) ==
    CASE error = "InsufficientData" ->
           "No fertilizer recommendation data was returned from the API. The location may not have data available."
      [] error = "UnsupportedRegion" ->
           "Coordinates are outside Ethiopia. SSFR is only available for Ethiopian locations."
      [] OTHER -> error

\* The catch block of the handler
havingTrouble(message) ==
    ToolResult(TRUE, "text", "",
               "I'm having trouble getting fertilizer recommendations right now.",
               IF message = "" THEN "Try again in a moment?" ELSE message,
               NoLocation, NoBounds, NoResponse)

\* One invocation of the tool: its arguments as the schema lets them through,
\* the two headers of the request it came in, the coordinate it resolved,
\* and the result it returned.  stage: "idle", "invoked", "awaiting", "done".
Invocation(stage, crop, latitude, longitude, headerLat, headerLon, lat, lon, result) ==
    [stage |-> stage, crop |-> crop, latitude |-> latitude, longitude |-> longitude,
     headerLat |-> headerLat, headerLon |-> headerLon, lat |-> lat, lon |-> lon,
     result |-> result]

NoInvocation ==
    Invocation("idle", "", Undefined, Undefined, Undefined, Undefined,
               Undefined, Undefined, NoResult)

NoTool == tool = [k \in CallIds |-> NoInvocation]

\* The handler without its own region check: the one of
\* getFertilizerRecommendation is relied on
ToolInvoke_NoRegionCheck(k) ==
    /\ tool[k].stage = "invoked"
    /\ pc[k] = "unused"
    /\ LET t == tool[k]
           lat == resolve(t.latitude, defaultCoordinate(t.headerLat))
           lon == resolve(t.longitude, defaultCoordinate(t.headerLon))
           resolved == [t EXCEPT !.lat = lat, !.lon = lon]
       IN  IF lat = Undefined \/ lon = Undefined
           THEN /\ tool' = [tool EXCEPT ![k] =
                       [resolved EXCEPT !.stage = "done", !.result = needLocation]]
                /\ UNCHANGED callVars
           ELSE /\ tool' = [tool EXCEPT ![k] = [resolved EXCEPT !.stage = "awaiting"]]
                /\ IF ~isInEthiopiaValue(lat, lon)
                   THEN /\ pc' = [pc EXCEPT ![k] = "threw"]
                        /\ thrown' = [thrown EXCEPT ![k] = "UnsupportedRegion"]
                        /\ UNCHANGED <<args, layerPromises, fetchLog, layerOutcome>>
                   ELSE LET a == [crop |-> t.crop, lat |-> Units(lat), lon |-> Units(lon)]
                            layers == SSFR_LAYERS[a.crop]
                            issued == [i \in Slots |->
                                         issueFetch(LayerOrder[i], layers[LayerOrder[i]],
                                                    a.lat, a.lon, LAYER_DATES.default)]
                        IN  /\ args' = [args EXCEPT ![k] = a]
                            /\ pc' = [pc EXCEPT ![k] = "awaiting"]
                            /\ layerPromises' =
                                   [layerPromises EXCEPT ![k] =
                                       [i \in Slots |-> issued[i].promise]]
                            /\ fetchLog' =
                                   [fetchLog EXCEPT ![k] =
                                       Flatten([i \in Slots |-> issued[i].sent])]
                            /\ layerOutcome' =
                                   [layerOutcome EXCEPT ![k] =
                                       [i \in Slots |-> issued[i].ended]]
                            /\ UNCHANGED thrown
                /\ UNCHANGED <<recommendation, upstream>>
    /\ UNCHANGED <<probeVars, fetchVars>>

\* The handler with latitude || defaultLatitude in place of ??
ToolInvoke_OrDefault(k) ==
    /\ tool[k].stage = "invoked"
    /\ pc[k] = "unused"
    /\ LET t == tool[k]
           lat == resolve_Or(t.latitude, defaultCoordinate(t.headerLat))
           lon == resolve_Or(t.longitude, defaultCoordinate(t.headerLon))
           resolved == [t EXCEPT !.lat = lat, !.lon = lon]
       IN  IF lat = Undefined \/ lon = Undefined
           THEN /\ tool' = [tool EXCEPT ![k] =
                       [resolved EXCEPT !.stage = "done", !.result = needLocation]]
                /\ UNCHANGED callVars
           ELSE IF ~isInEthiopiaValue(lat, lon)
           THEN /\ tool' = [tool EXCEPT ![k] =
                       [resolved EXCEPT !.stage = "done",
                                        !.result = locationNotSupported(lat, lon)]]
                /\ UNCHANGED callVars
           ELSE /\ tool' = [tool EXCEPT ![k] = [resolved EXCEPT !.stage = "awaiting"]]
                /\ LET a == [crop |-> t.crop, lat |-> Units(lat), lon |-> Units(lon)]
                       layers == SSFR_LAYERS[a.crop]
                       issued == [i \in Slots |->
                                    issueFetch(LayerOrder[i], layers[LayerOrder[i]],
                                               a.lat, a.lon, LAYER_DATES.default)]
                   IN  /\ args' = [args EXCEPT ![k] = a]
                       /\ pc' = [pc EXCEPT ![k] = "awaiting"]
                       /\ layerPromises' =
                              [layerPromises EXCEPT ![k] =
                                  [i \in Slots |-> issued[i].promise]]
                       /\ fetchLog' =
                              [fetchLog EXCEPT ![k] =
                                  Flatten([i \in Slots |-> issued[i].sent])]
                       /\ layerOutcome' =
                              [layerOutcome EXCEPT ![k] =
                                  [i \in Slots |-> issued[i].ended]]
                /\ UNCHANGED <<recommendation, thrown, upstream>>
    /\ UNCHANGED <<probeVars, fetchVars>>

\* The handler runs to its first await: the coordinate is resolved from the
\* arguments and the header defaults, a missing axis and a coordinate outside
\* the region are answered at once, and otherwise getFertilizerRecommendation
\* is called, which runs to its own `await Promise.all`.  (The region check of
\* getFertilizerRecommendation is the one the handler has just made, with the
\* same coordinate.)
ToolInvoke(k) ==
    /\ tool[k].stage = "invoked"
    /\ pc[k] = "unused"
    /\ LET t == tool[k]
           lat == resolve(t.latitude, defaultCoordinate(t.headerLat))
           lon == resolve(t.longitude, defaultCoordinate(t.headerLon))
           resolved == [t EXCEPT !.lat = lat, !.lon = lon]
       IN  IF lat = Undefined \/ lon = Undefined
           THEN /\ tool' = [tool EXCEPT ![k] =
                       [resolved EXCEPT !.stage = "done", !.result = needLocation]]
                /\ UNCHANGED callVars
           ELSE IF ~isInEthiopiaValue(lat, lon)
           THEN /\ tool' = [tool EXCEPT ![k] =
                       [resolved EXCEPT !.stage = "done",
                                        !.result = locationNotSupported(lat, lon)]]
                /\ UNCHANGED callVars
           ELSE /\ tool' = [tool EXCEPT ![k] = [resolved EXCEPT !.stage = "awaiting"]]
                /\ LET a == [crop |-> t.crop, lat |-> Units(lat), lon |-> Units(lon)]
                       layers == SSFR_LAYERS[a.crop]
                       issued == [i \in Slots |->
                                    issueFetch(LayerOrder[i], layers[LayerOrder[i]],
                                               a.lat, a.lon, LAYER_DATES.default)]
                   IN  /\ args' = [args EXCEPT ![k] = a]
                       /\ pc' = [pc EXCEPT ![k] = "awaiting"]
                       /\ layerPromises' =
                              [layerPromises EXCEPT ![k] =
                                  [i \in Slots |-> issued[i].promise]]
                       /\ fetchLog' =
                              [fetchLog EXCEPT ![k] =
                                  Flatten([i \in Slots |-> issued[i].sent])]
                       /\ layerOutcome' =
                              [layerOutcome EXCEPT ![k] =
                                  [i \in Slots |-> issued[i].ended]]
                /\ UNCHANGED <<recommendation, thrown, upstream>>
    /\ UNCHANGED <<probeVars, fetchVars>>

\* The catch block putting what each layer's fetch reported into its text
ToolResume_LayerErrors(k) ==
    /\ tool[k].stage = "awaiting"
    /\ pc[k] \in {"returned", "threw"}
    /\ tool' = [tool EXCEPT ![k].stage = "done",
                            ![k].result =
                                IF pc[k] = "returned"
                                THEN formatResponse(recommendation[k])
                                ELSE [havingTrouble(errorMessage(thrown[k]))
                                         EXCEPT !.error = layerPromises[k][1].v.error]]
    /\ UNCHANGED <<callVars, probeVars, fetchVars>>

\* The await of getFertilizerRecommendation ends and the handler runs to its
\* return: the formatted response, or the text of the catch block.
ToolResume(k) ==
    /\ tool[k].stage = "awaiting"
    /\ pc[k] \in {"returned", "threw"}
    /\ tool' = [tool EXCEPT ![k].stage = "done",
                            ![k].result =
                                IF pc[k] = "returned"
                                THEN formatResponse(recommendation[k])
                                ELSE havingTrouble(errorMessage(thrown[k]))]
    /\ UNCHANGED <<callVars, probeVars, fetchVars>>

\* ------------------------------------------------------------------------
\* Inputs
\* ------------------------------------------------------------------------

\* Coordinates a call is made with: one inside the region, and points outside
\* it on each side (just beyond each bound, and far away).
InsideCoords == {<<91450, 387617>>}
OutsideCoords ==
    {<<29990, 387617>>, <<150010, 387617>>, <<91450, 319990>>, <<91450, 480010>>,
     <<29990, 480010>>, <<129345, 776266>>, <<-900000, -1800000>>}

\* Payloads the remote service answers with
SamplePayloads ==
    {ValuePayload(Num(0, 0)),
     ValuePayload(Num(20, 0)),
     ValuePayload(Str(<<"2", "6", "5", ".", "6", "7">>)),
     ValuePayload(Null),
     Response({"error", "coordinates"}, "partial data", "",
              <<[value |-> Str(<<"1", "6">>)]>>)}

\* Every way a request that was sent can end
SampleOutcomes ==
    {Threw(f) : f \in Faults \ {"InvalidArgument"}}
        \cup {Returned(d) : d \in SamplePayloads}

NoArgs == [crop |-> "", lat |-> 0, lon |-> 0]

CallInit(active, crop, coord, outcomes) ==
    /\ pc = [k \in CallIds |-> IF k \in active THEN "ready" ELSE "unused"]
    /\ args = [k \in CallIds |->
                 IF k \in active THEN [crop |-> crop, lat |-> coord[1], lon |-> coord[2]]
                 ELSE NoArgs]
    /\ layerPromises = [k \in CallIds |-> [i \in Slots |-> NotIssued]]
    /\ fetchLog = [k \in CallIds |-> <<>>]
    /\ layerOutcome = [k \in CallIds |-> [i \in Slots |-> NotEnded]]
    /\ recommendation = [k \in CallIds |-> NoRecommendation]
    /\ thrown = [k \in CallIds |-> ""]
    /\ upstream = outcomes

\* One call of getFertilizerRecommendation
Init ==
    /\ \E crop \in Crops, coord \in InsideCoords \cup OutsideCoords :
         CallInit({1}, crop, coord, SampleOutcomes)
    /\ probe = <<0, 0>>
    /\ inRegion = "?"
    /\ NoFetch
    /\ NoTool

Next ==
    \E k \in CallIds :
        \/ Start(k)
        \/ \E i \in Slots : Settle(k, i)
        \/ Join(k)

Spec == Init /\ [][Next]_vars

\* ------------------------------------------------------------------------
\* isInEthiopia on its own
\* ------------------------------------------------------------------------

Around(x) == (x - GridSpan)..(x + GridSpan)

ProbeLats == Around(30000) \cup Around(150000) \cup {29990, 150010, 91450, -900000, 900000}
ProbeLons == Around(320000) \cup Around(480000) \cup {319990, 480010, 387617, -1800000, 1800000}

NoCalls == CallInit({}, "wheat", <<0, 0>>, {})

RegionInit ==
    /\ NoCalls
    /\ probe \in ProbeLats \X ProbeLons
    /\ inRegion = "?"
    /\ NoFetch
    /\ NoTool

CheckRegion ==
    /\ inRegion = "?"
    /\ inRegion' = IF isInEthiopia(probe[1], probe[2]) THEN "true" ELSE "false"
    /\ UNCHANGED <<callVars, probe, fetchVars, tool>>

SpecRegion == RegionInit /\ [][CheckRegion]_vars

\* ------------------------------------------------------------------------
\* Vocabulary of the properties
\* ------------------------------------------------------------------------

\* 3.0 <= lat <= 15.0 and 32.0 <= lon <= 48.0
InBox(lat, lon) == lat >= 30000 /\ lat <= 150000 /\ lon >= 320000 /\ lon <= 480000

Done(k) == pc[k] \in {"returned", "threw"}
InRegionCall(k) == pc[k] # "unused" /\ InBox(args[k].lat, args[k].lon)

\* The field of a recommendation that belongs to a category
FieldOf(rec, name) ==
    CASE name = "compost" -> rec.organic.compost
      [] name = "vcompost" -> rec.organic.vermicompost
      [] name = "urea" -> rec.inorganic.urea
      [] name = "nps" -> rec.inorganic.nps
      [] name = "yield" -> rec.expectedYield

\* Numbers, and the strings that are their decimal notation
KnownNumbers ==
    {Num(0, 0), Num(16, 0), Num(20, 0), Num(26567, 2), Num(12345, 2), Num(358053, 2),
     Num(-5, 1), Num(1, 0), Num(1, 1), Num(12, 0)}
IsNumeral(v) == v.t = "str" /\ \E n \in KnownNumbers : NumToString(n) = v.s
NumberOf(v) ==
    IF v.t = "num" THEN v ELSE CHOOSE n \in KnownNumbers : NumToString(n) = v.s

Failed(o) == o.fault \in Faults
\* The fetch returned { coordinates: [ { value } ] } and nothing else
PlainPayload(o) ==
    o.fault = "" /\ o.data.keys = {"coordinates"} /\ Len(o.data.coordinates) >= 1
ValueOf(o) == o.data.coordinates[1].value
\* ... with a number or a numeral as the value
NumericPayload(o) ==
    PlainPayload(o) /\ (ValueOf(o).t = "num" \/ IsNumeral(ValueOf(o)))

\* ------------------------------------------------------------------------
\* Properties
\* ------------------------------------------------------------------------

\* C1: a call with a coordinate outside the box throws UnsupportedRegion,
\* returns nothing, and at no time has sent a request or created a promise.
C1_OutsideRejectedWithoutFetch ==
    \A k \in CallIds :
        (pc[k] # "unused" /\ ~InBox(args[k].lat, args[k].lon)) =>
            /\ pc[k] \in {"ready", "threw"}
            /\ pc[k] = "threw" => thrown[k] = "UnsupportedRegion"
            /\ fetchLog[k] = <<>>
            /\ \A i \in Slots : layerPromises[k][i].st = "none"
            /\ recommendation[k] = NoRecommendation

C1_Witness ==
    \E k \in CallIds :
        /\ pc[k] = "threw" /\ thrown[k] = "UnsupportedRegion"
        /\ args[k].lat = 29990 /\ fetchLog[k] = <<>>

\* C2 (as claimed): when one fetch fails and the other four return a numeric
\* value, the call returns, the failed category's field is absent and the
\* other four fields hold the returned values.
C2_OneFailureOmitsOnlyThatField ==
    \A k \in CallIds : \A c \in Slots :
        ( /\ Done(k) /\ InRegionCall(k)
          /\ Failed(layerOutcome[k][c])
          /\ \A j \in Slots \ {c} : NumericPayload(layerOutcome[k][j]) ) =>
            /\ pc[k] = "returned"
            /\ FieldOf(recommendation[k], LayerOrder[c]) = Undefined
            /\ \A j \in Slots \ {c} :
                 FieldOf(recommendation[k], LayerOrder[j])
                     = NumberOf(ValueOf(layerOutcome[k][j]))

\* C3 (as claimed): when all five fetches return a numeric value (a number,
\* 0 included, or a numeral), the call returns with the five fields holding
\* those values, whatever the order in which the fetches ended.
C3_AllNumericPopulatesAll ==
    \A k \in CallIds :
        ( /\ Done(k) /\ InRegionCall(k)
          /\ \A j \in Slots : NumericPayload(layerOutcome[k][j]) ) =>
            /\ pc[k] = "returned"
            /\ \A j \in Slots :
                 FieldOf(recommendation[k], LayerOrder[j])
                     = NumberOf(ValueOf(layerOutcome[k][j]))

\* C4 (as claimed): with every fetch either failed or returning a plain
\* payload, the call throws InsufficientData exactly when no fetch returned a
\* numeric value, and returns whenever one did.
C4_InsufficientIffNoUsable ==
    \A k \in CallIds :
        ( /\ Done(k) /\ InRegionCall(k)
          /\ \A j \in Slots : Failed(layerOutcome[k][j]) \/ PlainPayload(layerOutcome[k][j]) ) =>
            /\ thrown[k] = "InsufficientData"
                 <=> \A j \in Slots : ~NumericPayload(layerOutcome[k][j])
            /\ (\E j \in Slots : NumericPayload(layerOutcome[k][j])) => pc[k] = "returned"

\* C5: a call throws nothing but UnsupportedRegion or InsufficientData; a
\* fault of one fetch never rejects its promise: it is stored as the error
\* object of that layer, and the field of that layer stays absent.
C5_OnlyRegionOrInsufficient ==
    \A k \in CallIds :
        /\ thrown[k] \in {"", "UnsupportedRegion", "InsufficientData"}
        /\ pc[k] = "threw" <=> thrown[k] # ""
        /\ \A i \in Slots :
             /\ layerPromises[k][i].st # "rejected"
             /\ Failed(layerOutcome[k][i]) =>
                  /\ layerPromises[k][i].st = "fulfilled"
                  /\ layerPromises[k][i].v.layer = LayerOrder[i]
                  /\ layerPromises[k][i].v.error = layerOutcome[k][i].fault
                  /\ FieldOf(recommendation[k], LayerOrder[i]) = Undefined

C5_Witness ==
    \E k \in CallIds :
        /\ pc[k] = "returned"
        /\ \A f \in {"Timeout", "UpstreamError", "MalformedResponse"} :
             \E i \in Slots : layerOutcome[k][i].fault = f

\* C6: an in-region call has returned or thrown only when each of its five
\* fetches has ended and each of its five promises is settled.
C6_FanInWaitsForAll ==
    \A k \in CallIds :
        (Done(k) /\ InRegionCall(k)) =>
            \A i \in Slots :
                /\ layerPromises[k][i].st = "fulfilled"
                /\ layerOutcome[k][i] # NotEnded

C6_Witness ==
    \E k \in CallIds :
        /\ Done(k) /\ InRegionCall(k)
        /\ Failed(layerOutcome[k][1])
        /\ NumericPayload(layerOutcome[k][2])
        /\ Failed(layerOutcome[k][5])

\* The requests of call k that ask for the layer of category c
RequestsFor(k, c) ==
    {n \in 1..Len(fetchLog[k]) :
        fetchLog[k][n].layer = SSFR_LAYERS[args[k].crop][LayerOrder[c]]}

\* C14: an in-region call has sent no request before it starts and, from the
\* fan-out on, exactly five: for each category exactly one, for the layer of
\* the requested crop and that category, at the coordinate of the call, and
\* all five with the one date 2024-07; no category ever has a second request,
\* whatever the way its fetch ended.
C14_FiveFetchesOnePerCategory ==
    \A k \in CallIds :
        InRegionCall(k) =>
            /\ pc[k] = "ready" => fetchLog[k] = <<>>
            /\ pc[k] \in {"awaiting", "returned", "threw"} =>
                 /\ Len(fetchLog[k]) = 5
                 /\ \A c \in Slots : Cardinality(RequestsFor(k, c)) = 1
                 /\ \A n \in 1..Len(fetchLog[k]) :
                      /\ fetchLog[k][n].date = "2024-07"
                      /\ fetchLog[k][n].lat = args[k].lat
                      /\ fetchLog[k][n].lon = args[k].lon
                      /\ \E c \in Slots : n \in RequestsFor(k, c)

C14_Witness ==
    \E k \in CallIds :
        /\ pc[k] = "returned"
        /\ args[k].crop = "maize"
        /\ Failed(layerOutcome[k][3])
        /\ Failed(layerOutcome[k][5])
        /\ Len(fetchLog[k]) = 5
        /\ fetchLog[k][3].layer = "et_maize_urea_probabilistic_dominant"
        /\ fetchLog[k][5].layer = "et_maize_yieldtypes_optimal_dominant"

\* C9: isInEthiopia answers true exactly for 3.0 <= lat <= 15.0 and
\* 32.0 <= lon <= 48.0, the four bounds included.
C9_InclusiveBox ==
    inRegion # "?" => (inRegion = "true" <=> InBox(probe[1], probe[2]))

C9_Witness ==
    /\ inRegion = "true"
    /\ probe = <<150000, 320000>>

\* ------------------------------------------------------------------------
\* One getLayerData call in time
\* ------------------------------------------------------------------------

\* The last instant the clock reaches
MaxTime == 32

FetchLayers == {"", "et_wheat_urea_probabilistic_dominant"}
FetchLats == {-900010, -900000, 91450, 900000, 900010}
FetchLons == {-1800010, -1800000, 387617, 1800000, 1800010}
FetchDates == {"", "2024-07"}

FetchBodies == {Unparseable, NotAnObject} \cup {ObjectBody(d) : d \in SamplePayloads}

FetchInit ==
    /\ NoCalls
    /\ probe = <<0, 0>>
    /\ inRegion = "?"
    /\ NoTool
    /\ now = 0
    /\ \E layer \in FetchLayers, lat \in FetchLats, lon \in FetchLons, date \in FetchDates :
         gl = Frame("called", [layer |-> layer, lat |-> lat, lon |-> lon, date |-> date],
                    "none", 0, 0, NotEnded)

\* Time passes (it is counted from the call), but not past a timer that is
\* due: its callback runs first.
Tick ==
    /\ now < MaxTime
    /\ gl.stage # "called"
    /\ ~(gl.timer = "armed" /\ now >= gl.deadline)
    /\ now' = now + 1
    /\ UNCHANGED <<gl, callVars, probeVars, tool>>

FetchNext ==
    \/ GetLayerData
    \/ \E ok \in BOOLEAN : ResponseHeaders(ok)
    \/ FetchRejects
    \/ TimerFires
    \/ TextArrives
    \/ TextFails
    \/ \E body \in FetchBodies : JsonArrives(body)
    \/ Tick

SpecFetch == FetchInit /\ [][FetchNext]_vars

\* C7 (as claimed): once the 30-unit ceiling has passed, a getLayerData call
\* whose request was sent has ended; if the remote service had not delivered
\* the whole response by then, it has ended with Timeout.
C7_FetchSettlesWithinCeiling ==
    (gl.requests > 0 /\ now > TIMEOUT) => gl.stage = "done"

\* One of the four arguments is not acceptable: the layer or the date is
\* empty, or the latitude or the longitude is outside its absolute range
BadFetchArgs(a) ==
    \/ a.layer = ""
    \/ a.lat < -900000 \/ a.lat > 900000
    \/ a.lon < -1800000 \/ a.lon > 1800000
    \/ a.date = ""

\* C13: a getLayerData call with an empty layer, a latitude outside
\* [-90, 90], a longitude outside [-180, 180] or an empty date has thrown
\* InvalidArgument, having sent no request and armed no timer; a call with
\* four acceptable arguments has armed the timer and sent one request, and
\* at no later time has it sent another.
C13_InvalidArgsBeforeRequest ==
    gl.stage \notin {"idle", "called"} =>
        IF BadFetchArgs(gl.args)
        THEN /\ gl.stage = "done"
             /\ gl.outcome = Threw("InvalidArgument")
             /\ gl.requests = 0
             /\ gl.timer = "none"
        ELSE /\ gl.requests = 1
             /\ gl.timer \in {"armed", "cleared", "fired"}
             /\ gl.outcome # Threw("InvalidArgument")

C13_Witness ==
    /\ gl.stage = "done"
    /\ gl.args = [layer |-> "et_wheat_urea_probabilistic_dominant", lat |-> 900000,
                  lon |-> 1800010, date |-> "2024-07"]
    /\ gl.outcome = Threw("InvalidArgument")
    /\ gl.requests = 0
    /\ gl.timer = "none"

\* ------------------------------------------------------------------------
\* Two concurrent calls with the same arguments
\* ------------------------------------------------------------------------

TwoOutcomes ==
    {Threw("Timeout"), Returned(ValuePayload(Str(<<"2", "6", "5", ".", "6", "7">>)))}

TwoInit ==
    /\ \E crop \in {"maize"}, coord \in InsideCoords :
         CallInit(CallIds, crop, coord, TwoOutcomes)
    /\ probe = <<0, 0>>
    /\ inRegion = "?"
    /\ NoFetch
    /\ NoTool

SpecTwo == TwoInit /\ [][Next]_vars

\* What a call must produce from the way its own five fetches ended
OwnValue(o) == IF NumericPayload(o) THEN NumberOf(ValueOf(o)) ELSE Undefined

\* C8: each of two concurrent calls with the same arguments sends its own five
\* requests (ten in all), the result of each is decided by the way its own
\* five fetches ended, and two calls whose fetches ended alike have equal
\* results.
C8_ConcurrentCallsIndependent ==
    /\ \A k \in CallIds :
         /\ pc[k] \in {"awaiting", "returned", "threw"} =>
              /\ Len(fetchLog[k]) = 5
              /\ \A i \in Slots :
                   fetchLog[k][i] = Request(SSFR_LAYERS[args[k].crop][LayerOrder[i]],
                                            args[k].lat, args[k].lon, "2024-07")
         /\ \A i \in Slots :
              layerPromises[k][i].st = "fulfilled" <=> layerOutcome[k][i] \in upstream
         /\ Done(k) =>
              /\ pc[k] = "threw" <=> \A i \in Slots : Failed(layerOutcome[k][i])
              /\ \A i \in Slots :
                   FieldOf(recommendation[k], LayerOrder[i]) = OwnValue(layerOutcome[k][i])
    /\ (\A k \in CallIds : pc[k] # "ready") => Len(fetchLog[1]) + Len(fetchLog[2]) = 10
    /\ (Done(1) /\ Done(2) /\ layerOutcome[1] = layerOutcome[2]) =>
         /\ recommendation[1] = recommendation[2]
         /\ thrown[1] = thrown[2]

C8_Witness ==
    /\ pc[1] = "returned" /\ pc[2] = "returned"
    /\ args[1] = args[2]
    /\ Len(fetchLog[1]) + Len(fetchLog[2]) = 10
    /\ Failed(layerOutcome[1][1]) /\ ~Failed(layerOutcome[2][1])
    /\ recommendation[1] # recommendation[2]

\* ------------------------------------------------------------------------
\* The extraction on arbitrary values
\* ------------------------------------------------------------------------

Alphabet == {"0", "1", ".", "-", " ", "a"}
StringsUpTo(n) == UNION {[1..m -> Alphabet] : m \in 0..n}

SampleStrings ==
    {<<"1", "2", "3", ".", "4", "5">>, <<"a", "b", "c">>, <<"1", "2", "a", "b", "c">>,
     <<"3", "5", "8", "0", ".", "5", "3">>, <<"+", "1">>}

CoerceValues ==
    {Undefined, Null, Num(0, 0), Num(26567, 2)}
        \cup {Str(s) : s \in StringsUpTo(MaxStrLen) \cup SampleStrings}

\* Payloads of the fetch under test: every value, and the payloads without a
\* first coordinate entry
CoercePayloads ==
    {ValuePayload(v) : v \in CoerceValues}
        \cup {Response({}, "", "", <<>>), Response({"coordinates"}, "", "", <<>>)}

OtherOutcomes == {Threw("Timeout"), Returned(ValuePayload(Str(<<"2", "0">>)))}

\* The state in which the five fetches of a call have ended: one of them with
\* a payload under test, the others failed or with "20".
CoerceInit ==
    /\ \E crop \in {"wheat"}, coord \in InsideCoords, c \in Slots, d \in CoercePayloads,
          others \in [Slots -> OtherOutcomes] :
         LET ended == [i \in Slots |-> IF i = c THEN Returned(d) ELSE others[i]]
             layers == SSFR_LAYERS[crop]
         IN  /\ pc = [k \in CallIds |-> IF k = 1 THEN "awaiting" ELSE "unused"]
             /\ args = [k \in CallIds |->
                          IF k = 1 THEN [crop |-> crop, lat |-> coord[1], lon |-> coord[2]]
                          ELSE NoArgs]
             /\ layerOutcome = [k \in CallIds |->
                                  IF k = 1 THEN ended ELSE [i \in Slots |-> NotEnded]]
             /\ layerPromises = [k \in CallIds |->
                                   IF k = 1
                                   THEN [i \in Slots |-> catchLayer(LayerOrder[i], ended[i])]
                                   ELSE [i \in Slots |-> NotIssued]]
             /\ fetchLog = [k \in CallIds |->
                              IF k = 1
                              THEN [i \in Slots |->
                                      Request(layers[LayerOrder[i]], coord[1], coord[2],
                                              LAYER_DATES.default)]
                              ELSE <<>>]
             /\ upstream = {ended[i] : i \in Slots}
    /\ recommendation = [k \in CallIds |-> NoRecommendation]
    /\ thrown = [k \in CallIds |-> ""]
    /\ probe = <<0, 0>>
    /\ inRegion = "?"
    /\ NoFetch
    /\ NoTool

CoerceNext == \E k \in CallIds : Join(k)

SpecCoerce == CoerceInit /\ [][CoerceNext]_vars

\* First character after leading white space and an optional sign
RECURSIVE Body(_)
Body(s) ==
    IF s # <<>> /\ Head(s) = " " THEN Body(Tail(s))
    ELSE IF s # <<>> /\ Head(s) \in {"+", "-"} THEN Tail(s)
    ELSE s

\* The string does not start with a number: what follows the white space and
\* the sign is neither a digit nor a point followed by a digit
StartsWithoutNumber(s) ==
    LET b == Body(s)
    IN  \/ b = <<>>
        \/ /\ ~IsDigit(b[1])
           /\ ~(b[1] = "." /\ Len(b) >= 2 /\ IsDigit(b[2]))

\* The string is the notation of n followed by something that cannot extend it
NumeralThenRest(s, n) ==
    LET d == NumToString(n)
    IN  /\ Len(s) > Len(d)
        /\ SubSeq(s, 1, Len(d)) = d
        /\ LET c == s[Len(d) + 1]
           IN  /\ ~IsDigit(c)
               /\ c \notin {"e", "E"}
               /\ c = "." => (n.e > 0 \/ Len(s) = Len(d) + 1 \/ ~IsDigit(s[Len(d) + 2]))

\* The string holds a character that no notation of a number holds
HasForeignChar(s) ==
    \E i \in 1..Len(s) :
        ~IsDigit(s[i]) /\ s[i] \notin {".", "-", "+", " ", "e", "E"}

\* The value of the first coordinate entry, Undefined when there is none
EntryValue(o) ==
    IF "coordinates" \in o.data.keys /\ Len(o.data.coordinates) >= 1
    THEN o.data.coordinates[1].value
    ELSE Undefined

\* C10 (as claimed): a value that is a string which is not a number, such as
\* "abc", leaves the category absent.
C10_NonNumericStringAbsent ==
    \A k \in CallIds : \A i \in Slots :
        ( /\ Done(k)
          /\ layerOutcome[k][i].fault = ""
          /\ EntryValue(layerOutcome[k][i]).t = "str"
          /\ HasForeignChar(EntryValue(layerOutcome[k][i]).s) ) =>
            FieldOf(recommendation[k], LayerOrder[i]) = Undefined

\* C10 (amended): a numeral such as "123.45" yields its number, and so does a
\* numeral followed by other characters; a value that is null, missing, or a
\* string that does not start with a number leaves the category absent; none
\* of them makes the call throw anything but InsufficientData, and the other
\* categories hold what their own fetches returned.
C10_CoercionByNumericPrefix ==
    \A k \in CallIds :
        Done(k) =>
            /\ thrown[k] \in {"", "InsufficientData"}
            /\ \A i \in Slots :
                 LET o == layerOutcome[k][i]
                     v == EntryValue(o)
                     field == FieldOf(recommendation[k], LayerOrder[i])
                 IN  /\ Failed(o) => field = Undefined
                     /\ (o.fault = "" /\ v.t \in {"null", "undefined"}) => field = Undefined
                     /\ (o.fault = "" /\ v.t = "str" /\ StartsWithoutNumber(v.s)) =>
                          field = Undefined
                     /\ \A n \in KnownNumbers :
                          ( /\ o.fault = "" /\ v.t = "str"
                            /\ (v.s = NumToString(n) \/ NumeralThenRest(v.s, n)) ) =>
                              (pc[k] = "returned" /\ field = n)

C10_Witness ==
    /\ pc[1] = "returned"
    /\ EntryValue(layerOutcome[1][1]) = Str(<<"1", "2", "a", "b", "c">>)
    /\ recommendation[1].organic.compost = Num(12, 0)
    /\ Failed(layerOutcome[1][2])
    /\ recommendation[1].organic.vermicompost = Num(20, 0)

\* ------------------------------------------------------------------------
\* One invocation of the tool
\* ------------------------------------------------------------------------

\* Arguments the schema lets through: absent, or a number within the range
ToolLatitudes == {Undefined, Num(0, 0), Num(9145, 3), Num(2999, 3)}
ToolLongitudes == {Undefined, Num(387617, 4), Num(776266, 4)}

\* The X-Farm-Latitude and X-Farm-Longitude headers: absent, empty, a numeral
\* inside or outside the region, a numeral followed by a unit, not a number
HeaderLats ==
    {Undefined, Str(<<>>), Str(<<"9", ".", "1", "4", "5">>), Str(<<"2", "0">>),
     Str(<<"a", "b", "c">>)}
HeaderLons ==
    {Undefined, Str(<<>>), Str(<<"3", "8", ".", "7", "6", "E">>), Str(<<"x">>)}

ToolOutcomes ==
    {Threw("Timeout"), Threw("UpstreamError"), Returned(ValuePayload(Num(20, 0)))}

ToolInit ==
    /\ CallInit({}, "wheat", <<0, 0>>, ToolOutcomes)
    /\ \E crop \in Crops, latitude \in ToolLatitudes, longitude \in ToolLongitudes,
          headerLat \in HeaderLats, headerLon \in HeaderLons :
         tool = [k \in CallIds |->
                   IF k = 1
                   THEN Invocation("invoked", crop, latitude, longitude, headerLat,
                                   headerLon, Undefined, Undefined, NoResult)
                   ELSE NoInvocation]
    /\ probe = <<0, 0>>
    /\ inRegion = "?"
    /\ NoFetch

ToolNext ==
    \E k \in CallIds :
        \/ ToolInvoke(k)
        \/ \E i \in Slots : Settle(k, i)
        \/ Join(k)
        \/ ToolResume(k)

SpecTool == ToolInit /\ [][ToolNext]_vars

\* The invocation has resolved its coordinate
Resolved(k) == tool[k].stage \in {"awaiting", "done"}
\* No call of getFertilizerRecommendation was made and no request sent
NothingFetched(k) ==
    /\ pc[k] = "unused"
    /\ fetchLog[k] = <<>>
    /\ \A i \in Slots : layerPromises[k][i].st = "none"

\* C11: an invocation whose resolved coordinate is outside the box has
\* returned, with isError true and a JSON text that holds the bounds 3.0,
\* 15.0, 32.0, 48.0 and the resolved latitude and longitude, without calling
\* getFertilizerRecommendation and without any request; an axis resolved to
\* something that is not a number is answered the same way, with null in its
\* place.
C11_OutsideAnsweredWithBounds ==
    \A k \in CallIds :
        LET t == tool[k]
            numbers == t.lat.t = "num" /\ t.lon.t = "num"
        IN  ( /\ Resolved(k)
              /\ t.lat # Undefined /\ t.lon # Undefined
              /\ ~(numbers /\ InBox(Units(t.lat), Units(t.lon))) ) =>
                /\ t.stage = "done"
                /\ t.result.isError
                /\ t.result.form = "json"
                /\ t.result.error = "Location not supported"
                /\ t.result.ethiopia_bounds =
                       [minLat |-> 30000, maxLat |-> 150000,
                        minLon |-> 320000, maxLon |-> 480000]
                /\ t.result.location.latitude = (IF t.lat.t = "num" THEN t.lat ELSE Null)
                /\ t.result.location.longitude = (IF t.lon.t = "num" THEN t.lon ELSE Null)
                /\ t.result.response = NoResponse
                /\ NothingFetched(k)

C11_Witness ==
    \E k \in CallIds :
        /\ tool[k].stage = "done"
        /\ tool[k].lat = Num(2999, 3)
        /\ tool[k].lon = Num(387617, 4)
        /\ tool[k].result.isError
        /\ tool[k].result.location = [latitude |-> Num(2999, 3), longitude |-> Num(387617, 4)]
        /\ fetchLog[k] = <<>>

\* ------------------------------------------------------------------------
\* Two invocations of the tool with the same arguments
\* ------------------------------------------------------------------------

\* Every fetch fails, in one of two ways
FaultOutcomes == {Threw("Timeout"), Threw("UpstreamError")}

ToolTwoInit ==
    /\ CallInit({}, "wheat", <<0, 0>>, FaultOutcomes)
    /\ \E crop \in Crops :
         tool = [k \in CallIds |->
                   Invocation("invoked", crop, Num(9145, 3), Undefined, Undefined,
                              Str(<<"3", "8", ".", "7", "6", "1", "7">>),
                              Undefined, Undefined, NoResult)]
    /\ probe = <<0, 0>>
    /\ inRegion = "?"
    /\ NoFetch

SpecToolTwo == ToolTwoInit /\ [][ToolNext]_vars

SameInvocation(j, k) ==
    /\ tool[j].crop = tool[k].crop
    /\ tool[j].latitude = tool[k].latitude
    /\ tool[j].longitude = tool[k].longitude
    /\ tool[j].headerLat = tool[k].headerLat
    /\ tool[j].headerLon = tool[k].headerLon

\* C12: an invocation whose getFertilizerRecommendation call threw
\* InsufficientData returns isError true with a fixed plain text: no
\* recommendation, no field of one, and nothing of what the five fetches
\* reported; two invocations with the same arguments whose five fetches all
\* failed, in whatever ways, return the same result.
C12_InsufficientDataOutputGeneric ==
    /\ \A k \in CallIds :
         (tool[k].stage = "done" /\ thrown[k] = "InsufficientData") =>
             tool[k].result =
                 ToolResult(TRUE, "text", "",
                            "I'm having trouble getting fertilizer recommendations right now.",
                            "No fertilizer recommendation data was returned from the API. The location may not have data available.",
                            NoLocation, NoBounds, NoResponse)
    /\ \A j, k \in CallIds :
         ( /\ tool[j].stage = "done" /\ tool[k].stage = "done"
           /\ SameInvocation(j, k)
           /\ \A i \in Slots : Failed(layerOutcome[j][i]) /\ Failed(layerOutcome[k][i]) ) =>
             tool[j].result = tool[k].result

C12_Witness ==
    /\ tool[1].stage = "done" /\ tool[2].stage = "done"
    /\ thrown[1] = "InsufficientData" /\ thrown[2] = "InsufficientData"
    /\ \A i \in Slots :
         /\ layerOutcome[1][i].fault = "Timeout"
         /\ layerOutcome[2][i].fault = "UpstreamError"
         /\ layerPromises[1][i].v.error # layerPromises[2][i].v.error
    /\ tool[1].result = tool[2].result
    /\ tool[1].result.isError

\* ------------------------------------------------------------------------
\* Classification and slots of the five results
\* ------------------------------------------------------------------------

\* C15 (as claimed): the category of a fetch is left absent as a failure only
\* if the fetch threw; a fetch that returned a payload whose first coordinate
\* entry holds a numeral populates its category with that number, whatever
\* other fields the payload has, so the call returns.
C15_FailureIffFault ==
    \A k \in CallIds : \A i \in Slots :
        LET o == layerOutcome[k][i]
        IN  (Done(k) /\ InRegionCall(k)) =>
                /\ Failed(o) => FieldOf(recommendation[k], LayerOrder[i]) = Undefined
                /\ (o.fault = "" /\ IsNumeral(EntryValue(o))) =>
                     /\ pc[k] = "returned"
                     /\ FieldOf(recommendation[k], LayerOrder[i])
                            = NumberOf(EntryValue(o))

\* ------------------------------------------------------------------------
\* Two calls whose fetches ended alike but for one
\* ------------------------------------------------------------------------

\* The payloads of the example: compost "20", nps "0", urea "265.67",
\* vcompost "16", yield "3580.53", in the order of the layerPromises array
ExampleOutcomes ==
    <<Returned(ValuePayload(Str(<<"2", "0">>))),
      Returned(ValuePayload(Str(<<"0">>))),
      Returned(ValuePayload(Str(<<"2", "6", "5", ".", "6", "7">>))),
      Returned(ValuePayload(Str(<<"1", "6">>))),
      Returned(ValuePayload(Str(<<"3", "5", "8", "0", ".", "5", "3">>)))>>

SlotOutcomes ==
    {Threw("Timeout"),
     Returned(ValuePayload(Str(<<"2", "0">>))),
     Returned(ValuePayload(Num(0, 0))),
     Returned(Response({"error", "coordinates"}, "partial data", "",
                       <<[value |-> Str(<<"1", "6">>)]>>))}

\* The state in which the five fetches of each of two calls have ended: those
\* of the first in any way, those of the second in the same way but for one.
SlotsInit ==
    /\ \E coord \in InsideCoords,
          base \in [Slots -> SlotOutcomes] \cup {[i \in Slots |-> ExampleOutcomes[i]]},
          j \in Slots, other \in SlotOutcomes :
         LET ended == [k \in CallIds |->
                         IF k = 1 THEN base ELSE [base EXCEPT ![j] = other]]
             layers == SSFR_LAYERS["wheat"]
         IN  /\ pc = [k \in CallIds |-> "awaiting"]
             /\ args = [k \in CallIds |->
                          [crop |-> "wheat", lat |-> coord[1], lon |-> coord[2]]]
             /\ layerOutcome = ended
             /\ layerPromises =
                    [k \in CallIds |->
                       [i \in Slots |-> catchLayer(LayerOrder[i], ended[k][i])]]
             /\ fetchLog =
                    [k \in CallIds |->
                       [i \in Slots |->
                          Request(layers[LayerOrder[i]], coord[1], coord[2],
                                  LAYER_DATES.default)]]
             /\ upstream = {ended[k][i] : k \in CallIds, i \in Slots}
    /\ recommendation = [k \in CallIds |-> NoRecommendation]
    /\ thrown = [k \in CallIds |-> ""]
    /\ probe = <<0, 0>>
    /\ inRegion = "?"
    /\ NoFetch
    /\ NoTool

SpecSlots == SlotsInit /\ [][CoerceNext]_vars

IsExample(k) == \A i \in Slots : layerOutcome[k][i] = ExampleOutcomes[i]

\* C16: a field that is present holds the number of the first coordinate
\* entry of the payload that the fetch of its own category returned; two
\* calls in which the fetch of a category ended alike have the same field for
\* that category, however the fetches of the other categories ended; and the
\* payloads compost "20", vcompost "16", urea "265.67", nps "0", yield
\* "3580.53" give 20, 16, 265.67, 0 and 3580.53 in those fields.
C16_OwnSlotOnly ==
    /\ \A k \in CallIds : \A i \in Slots :
         LET o == layerOutcome[k][i]
             field == FieldOf(recommendation[k], LayerOrder[i])
         IN  (Done(k) /\ field # Undefined) =>
                 /\ pc[k] = "returned"
                 /\ o.fault = ""
                 /\ EntryValue(o).t = "num" \/ IsNumeral(EntryValue(o))
                 /\ field = NumberOf(EntryValue(o))
    /\ \A i \in Slots :
         (Done(1) /\ Done(2) /\ layerOutcome[1][i] = layerOutcome[2][i]) =>
             FieldOf(recommendation[1], LayerOrder[i])
                 = FieldOf(recommendation[2], LayerOrder[i])
    /\ \A k \in CallIds :
         (Done(k) /\ IsExample(k)) =>
             /\ pc[k] = "returned"
             /\ recommendation[k].organic.compost = Num(20, 0)
             /\ recommendation[k].organic.vermicompost = Num(16, 0)
             /\ recommendation[k].inorganic.urea = Num(26567, 2)
             /\ recommendation[k].inorganic.nps = Num(0, 0)
             /\ recommendation[k].expectedYield = Num(358053, 2)

C16_Witness ==
    /\ pc[1] = "returned" /\ pc[2] = "returned"
    /\ IsExample(1)
    /\ recommendation[1].inorganic.urea = Num(26567, 2)
    /\ recommendation[1].inorganic.nps = Num(0, 0)
    /\ Failed(layerOutcome[2][3])
    /\ recommendation[2].inorganic.urea = Undefined
    /\ recommendation[2].inorganic.nps = Num(0, 0)
    /\ recommendation[2].organic = recommendation[1].organic
    /\ recommendation[2].expectedYield = Num(358053, 2)

\* ------------------------------------------------------------------------
\* Resolution of the coordinate by the tool
\* ------------------------------------------------------------------------

\* Numbers whose notation is among the headers
HeaderNumbers == {Num(9145, 3), Num(20, 0)}

\* Neither the argument nor the header gives the axis
Unsupplied(argument, header) ==
    argument = Undefined /\ header \in {Undefined, Str(<<>>)}

\* What the axis is resolved to, where the claim says it
ResolvedAs(argument, header, axis) ==
    /\ argument # Undefined => axis = argument
    /\ \A n \in HeaderNumbers :
         (argument = Undefined /\ header = Str(NumToString(n))) => axis = n
    /\ Unsupplied(argument, header) => axis = Undefined

\* C17: getFertilizerRecommendation is called, and requests are sent, only
\* for an invocation whose two axes are resolved to numbers inside the box,
\* and it is called with them; an axis is resolved to the argument when there
\* is one (0 included) and to the number in the header otherwise; an
\* invocation with an axis that neither gives has returned isError true with
\* the text asking for the location, nothing fetched; and an invocation that
\* has ended has returned a result, with isError true unless
\* getFertilizerRecommendation returned, also when that call threw.
C17_RecommendOnlyWhenResolvedInRegion ==
    \A k \in CallIds :
        LET t == tool[k]
        IN  /\ t.stage \in {"idle", "invoked", "awaiting", "done"}
            /\ (pc[k] # "unused" \/ fetchLog[k] # <<>>) =>
                 /\ Resolved(k)
                 /\ t.lat.t = "num" /\ t.lon.t = "num"
                 /\ InBox(Units(t.lat), Units(t.lon))
                 /\ args[k] = [crop |-> t.crop, lat |-> Units(t.lat), lon |-> Units(t.lon)]
            /\ Resolved(k) =>
                 /\ ResolvedAs(t.latitude, t.headerLat, t.lat)
                 /\ ResolvedAs(t.longitude, t.headerLon, t.lon)
            /\ ( /\ Resolved(k)
                 /\ Unsupplied(t.latitude, t.headerLat) \/ Unsupplied(t.longitude, t.headerLon) ) =>
                 /\ t.stage = "done"
                 /\ t.result.isError
                 /\ t.result.form = "text"
                 /\ t.result.message =
                        "I need to know your farm location to provide fertilizer recommendations. Please provide your latitude and longitude coordinates."
                 /\ NothingFetched(k)
            /\ t.stage = "awaiting" => pc[k] \in {"awaiting", "returned", "threw"}
            /\ t.stage = "done" =>
                 /\ t.result.form \in {"text", "json"}
                 /\ t.result.isError <=> pc[k] # "returned"
                 /\ pc[k] \in {"unused", "returned", "threw"}
                 /\ pc[k] = "returned" =>
                      /\ t.result.response.fertilizers.organic = recommendation[k].organic
                      /\ t.result.response.fertilizers.inorganic = recommendation[k].inorganic
                      /\ t.result.response.expected_yield = recommendation[k].expectedYield

C17_Witness ==
    \E k \in CallIds :
        /\ tool[k].stage = "done"
        /\ tool[k].latitude = Num(9145, 3)
        /\ tool[k].headerLat = Str(<<"2", "0">>)
        /\ tool[k].longitude = Undefined
        /\ tool[k].lon = Num(3876, 2)
        /\ pc[k] = "returned"
        /\ Len(fetchLog[k]) = 5
        /\ ~tool[k].result.isError
        /\ tool[k].result.response.location = [latitude |-> 91450, longitude |-> 387600]

====
